---- MODULE Spec2Model ----
(***************************************************************************)
(* Model of the flash loan protocol of sui_flash_loan::flash_loan          *)
(* (contracts/sources/flash_loan.move).                                    *)
(*                                                                         *)
(* A unit of work is a Sui transaction: it runs against a working copy `w` *)
(* of the on-chain state `chain`; it either commits (chain' = w) or is     *)
(* rolled back (w' = chain).  A Move abort leaves the working copy as it   *)
(* was before the aborting call and forces the rollback of the unit.       *)
(* u64 arithmetic is checked: a result above MAX_U64 aborts the call.      *)
(***************************************************************************)
EXTENDS Integers, FiniteSets, Sequences, TLC

\* ---------------------------------------------------------------- bounds
\* Width of the machine word the u64 arithmetic is modelled at.
U64Bits == 14
\* Number of pools create_pool may publish.
MaxPools == 2
\* Number of loans borrow may issue (caps the object id counter).
MaxLoans == 1
\* Number of borrow-repay cycles of a run of cycles.
MaxCycles == 2
\* Width of the machine word the u64 arithmetic of the detector is modelled
\* at: its prices are scaled by 10^6 and need a wider word than the pools.
DetectorBits == 29
\* Number of opportunities the detector may record.
MaxOpps == 1
\* Number of times the clock advances.
MaxTicks == 2
\* Number of opportunities recorded when the table is filled beyond
\* max_opportunities.
MaxRecorded == 101

MAX_U64 == 2^U64Bits - 1
MAX_U64_DETECTOR == 2^DetectorBits - 1

\* ---------------------------------------------------------------- inputs
ADMIN == "ADMIN"
USER == "USER"
Addresses == {ADMIN, USER}
\* Senders that publish pools.
PoolCreators == {ADMIN}
\* Senders that borrow.
Borrowers == {USER}
\* No transaction is running.
NoSender == ""
\* Holder of a value that lives inside the running transaction.
InTx == "tx"

InitialBalances == {1200}
FeeRates == {30}
MaxLoanAmounts == {1150}
Amounts == {400, 1100, 1180, 2000}
\* The amount of every loan of a run of borrow-repay cycles.
CycleAmount == 400
\* Fee rates above the 10% maximum, tried at pool creation.
HighFeeRates == {1001}
\* Fee rates the admin functions are called with.
NewFeeRates == {0, 1000, 1001}

\* Reserve snapshots <<reserve_a, reserve_b>> of a pool: an empty base
\* reserve, prices 1000000 and 1002000, prices 1000 and 1001, price 1, and a
\* quote reserve whose scaled value does not fit the word.
ReserveSnapshots ==
    {<<0, 5>>, <<500, 500>>, <<500, 501>>, <<1000, 1>>, <<999, 1>>, <<1000000, 1>>, <<1, 600>>}
\* Clock readings.
Timestamps == {1000}
\* Milliseconds the clock advances by between two transactions.
ClockStep == 300000
\* Snapshots of the second pool of a detector that is called until its table
\* is full (prices 1000000 and 1002000); the first pool has reserves 500/500.
FillSnapshots == {<<500, 500>>, <<500, 501>>}
\* Prices detect_cross_chain_arbitrage is called with.
CrossPrices == {0, 1000, 1002, 1003, 100000}
\* Arguments of detect_liquidation_opportunity.
CollateralValues == {8000, 20000, 60000}
DebtValues == {0, 10000}
LiquidationThresholds == {8500, 25000}
\* Arguments of update_price.
TokenNames == {"SUI", "USDC"}
OraclePrices == {0, 5, 7}
\* Arguments of the two register_pool functions.
PoolIds == {"POOL_A", "POOL_B"}
Networks == {"testnet_sui_usdc", "mainnet_sui_usdc"}
BaseAssets == {"SUI", "DEEP"}
QuoteAssets == {"USDC"}
\* Arguments of flash_loan::execute_arbitrage.
ArbitrageAmounts == {399, 400}
MinProfits == {0, 4}
\* Venue keys the execute functions of the adapter are called with, the
\* amounts they are called with, and the pool an admin registers by hand.
Venues == {"testnet_sui_usdc", "mainnet_sui_usdt", "unlisted"}
ExecAmounts == {1000}
DebtAmounts == {1000, 3000000}
CollateralAmounts == {1500}
ManualPoolIds == {"POOL_A"}

\* ---------------------------------------------------------------- error codes
EInsufficientBalance == 0
EInvalidRepayment == 1
EUnauthorizedAccess == 2
ELoanExpired == 3
EMaxLoanExceeded == 4
EPoolNotActive == 5
BpsDenominator == 10000
\* update_fee_rate: the highest rate it accepts, and the code it aborts with above it.
MaxFeeRate == 1000
EInvalidConfiguration == 101
\* Abort code and divisor of the simulated profit of execute_arbitrage.
EArbitrageProfitTooLow == 100
ArbitrageProfitDivisor == 100
\* arbitrage_detector: error codes; deepbook_integration: EUnauthorized.
EInvalidPrice == 2
EUnauthorized == 3
EUnauthorizedManager == 0
EPoolNotFound == 2
\* deepbook_integration: numerator of the liquidation bonus.
LiquidationBonus == 500
\* arbitrage_detector: scale of a price, scale of a relative difference,
\* recommended amount and lifetime (ms) of an opportunity.
PriceScale == 1000000
RelativeDiffScale == 10000
RecommendedAmount == 1000000
OpportunityLifetime == 300000

\* Outcome of a call: it returns, aborts with a code, or aborts on u64 overflow.
Ok == [status |-> "ok", code |-> 0]
Abort(c) == [status |-> "abort", code |-> c]
ArithmeticError == [status |-> "arith", code |-> 0]

VARIABLES chain, w, txStatus, txSender, lastOp, detector, lastDetect,
          oracle, manager, lastCall, clock

\* The variables of the loan protocol, of the detector, and all of them.
vars == <<chain, w, txStatus, txSender, lastOp>>
dvars == <<detector, lastDetect, oracle, manager, lastCall>>
allvars == <<chain, w, txStatus, txSender, lastOp, detector, lastDetect,
             oracle, manager, lastCall, clock>>

\* ---------------------------------------------------------------- data
\* struct FlashLoan
FlashLoan(id, amount, fee, borrower, pool_id) ==
    [id |-> id, amount |-> amount, fee |-> fee, borrower |-> borrower, pool_id |-> pool_id]

\* Variant: the pool is published switched off.
LiquidityPool_inactive(balance, fee_rate, max_loan_amount, admin) ==
    [balance |-> balance, fee_rate |-> fee_rate, max_loan_amount |-> max_loan_amount,
     total_loans_issued |-> 0, total_fees_collected |-> 0, active |-> FALSE, admin |-> admin]

\* struct LiquidityPool, as create_pool fills it
LiquidityPool(balance, fee_rate, max_loan_amount, admin) ==
    [balance |-> balance, fee_rate |-> fee_rate, max_loan_amount |-> max_loan_amount,
     total_loans_issued |-> 0, total_fees_collected |-> 0, active |-> TRUE, admin |-> admin]

NoLoan == FlashLoan(0, 0, 0, "", 0)

NoPool == [balance |-> 0, fee_rate |-> 0, max_loan_amount |-> 0,
           total_loans_issued |-> 0, total_fees_collected |-> 0, active |-> FALSE, admin |-> ""]

\* Record of the last call: its arguments, its outcome, the value it returned
\* (out: the funds of borrow, the profit of repay) and the pool as it was before.
\* For create_pool, amount is the initial balance and pre carries the fee_rate
\* and max_loan_amount arguments; for update_fee_rate, amount is the new rate.
Op(op, res, sender, pool, amount, payment, loan, out, pre) ==
    [op |-> op, status |-> res.status, code |-> res.code, sender |-> sender, pool |-> pool,
     amount |-> amount, payment |-> payment, loan |-> loan, out |-> out, pre |-> pre]

\* State after publishing the package: no pool, no loan object.
\*   pools    : the shared LiquidityPool objects, by pool id
\*   loans    : the live FlashLoan objects with their holder
\*   nextLoan : next fresh object id (one more than the number of loans issued)
\*   consumed : ids of the loans repay has unpacked
\*   settled  : the loans repay has unpacked, with the pool each was repaid to
\*   repays   : number of calls of repay that returned
\*   borrowed : timestamps of the FlashLoanBorrowed events, by loan id
Genesis == [pools |-> <<>>, loans |-> {}, nextLoan |-> 1, consumed |-> {}, repays |-> 0,
            borrowed |-> <<>>, settled |-> {}]

\* arbitrage_detector::init: the shared ArbitrageDetector.
DetectorGenesis ==
    [opportunities |-> <<>>, registered_pools |-> <<>>, min_profit_threshold |-> 10,
     max_opportunities |-> 100, admin |-> ADMIN]

\* struct PoolInfo (the fields the detector reads)
PoolInfo(pool_id, reserve_a, reserve_b) ==
    [pool_id |-> pool_id, reserve_a |-> reserve_a, reserve_b |-> reserve_b]

\* Record of the last detector call: its snapshots, how it ended (it returned,
\* aborted on u64 overflow, or aborted on a division by zero) and what it returned.
Detect(op, status, ret, a, b) == [op |-> op, status |-> status, ret |-> ret, a |-> a, b |-> b]

NoDetect == Detect("init", "ok", FALSE, PoolInfo("", 0, 0), PoolInfo("", 0, 0))

\* arbitrage_detector::init: the shared PriceOracle.
\*   prices, last_updated : the two tables, as functions on the symbols written
OracleGenesis == [prices |-> [k \in {} |-> 0], last_updated |-> [k \in {} |-> 0], admin |-> ADMIN]

\* deepbook_integration::init: the shared DeepBookManager.
ManagerGenesis ==
    [registered_pools |-> [k \in {} |-> 0], balance_managers |-> [k \in {} |-> 0],
     admin |-> ADMIN]

\* Record of the last call of an admin function of the detector, the oracle
\* or the manager: its sender and arguments, its outcome, and the object as it
\* was before.
Call(op, res, sender, args, pre) ==
    [op |-> op, status |-> res.status, code |-> res.code, sender |-> sender,
     args |-> args, pre |-> pre]

Init ==
    /\ detector = DetectorGenesis
    /\ lastDetect = NoDetect
    /\ oracle = OracleGenesis
    /\ manager = ManagerGenesis
    /\ lastCall = Call("init", Ok, NoSender, <<>>, <<>>)
    /\ clock = 0
    /\ chain = Genesis
    /\ w = Genesis
    /\ txStatus = "idle"
    /\ txSender = NoSender
    /\ lastOp = Op("init", Ok, NoSender, 0, 0, 0, NoLoan, 0, NoPool)

\* ---------------------------------------------------------------- unit of work
\* A sender starts a transaction on the current on-chain state.
BeginTx(sender) ==
    /\ txStatus = "idle"
    /\ txStatus' = "running"
    /\ txSender' = sender
    /\ lastOp' = Op("begin", Ok, sender, 0, 0, 0, NoLoan, 0, NoPool)
    /\ UNCHANGED <<chain, w, dvars, clock>>

\* Loans held as values by the running transaction.
Held(st) == {o \in st.loans : o.owner = InTx}

\* The transaction completes: every value without `drop` has been consumed
\* or handed over.
CommitTx ==
    /\ txStatus = "running"
    /\ Held(w) = {}
    /\ chain' = w
    /\ txStatus' = "idle"
    /\ txSender' = NoSender
    /\ lastOp' = Op("commit", Ok, txSender, 0, 0, 0, NoLoan, 0, NoPool)
    /\ UNCHANGED <<w, dvars, clock>>

\* The transaction aborted, cannot complete, or is abandoned: no effect persists.
RollbackTx ==
    /\ txStatus \in {"running", "aborted"}
    /\ w' = chain
    /\ txStatus' = "idle"
    /\ txSender' = NoSender
    /\ lastOp' = Op("rollback", Ok, txSender, 0, 0, 0, NoLoan, 0, NoPool)
    /\ UNCHANGED <<chain, dvars, clock>>

\* A transaction is running and has not aborted.
CanCall == txStatus = "running"

\* ---------------------------------------------------------------- create_pool
create_pool(initial_balance, fee_rate, max_loan_amount) ==
    /\ CanCall
    /\ txSender \in PoolCreators
    /\ Len(w.pools) < MaxPools
    /\ LET pool == LiquidityPool(initial_balance, fee_rate, max_loan_amount, txSender)
       IN /\ w' = [w EXCEPT !.pools = Append(@, pool)]
          /\ lastOp' = Op("create_pool", Ok, txSender, Len(w.pools) + 1, initial_balance, 0,
                          NoLoan, 0, [NoPool EXCEPT !.fee_rate = fee_rate,
                                                    !.max_loan_amount = max_loan_amount])
    /\ UNCHANGED <<chain, txStatus, txSender, dvars, clock>>

\* ---------------------------------------------------------------- borrow
\* Variant: the balance is checked before the loan limit.
borrow_check_balance_first(pool, amount) ==
    IF ~pool.active THEN Abort(EPoolNotActive)
    ELSE IF ~(pool.balance >= amount) THEN Abort(EInsufficientBalance)
    ELSE IF ~(amount <= pool.max_loan_amount) THEN Abort(EMaxLoanExceeded)
    ELSE IF amount * pool.fee_rate > MAX_U64 THEN ArithmeticError
    ELSE IF pool.total_loans_issued + 1 > MAX_U64 THEN ArithmeticError
    ELSE Ok

\* Variant: the active flag is checked after the two amounts.
borrow_check_active_last(pool, amount) ==
    IF ~(amount <= pool.max_loan_amount) THEN Abort(EMaxLoanExceeded)
    ELSE IF ~(pool.balance >= amount) THEN Abort(EInsufficientBalance)
    ELSE IF ~pool.active THEN Abort(EPoolNotActive)
    ELSE IF amount * pool.fee_rate > MAX_U64 THEN ArithmeticError
    ELSE IF pool.total_loans_issued + 1 > MAX_U64 THEN ArithmeticError
    ELSE Ok

\* The assertions of borrow in program order, then its checked u64 arithmetic.
borrow_check(pool, amount) ==
    IF ~pool.active THEN Abort(EPoolNotActive)
    ELSE IF ~(amount <= pool.max_loan_amount) THEN Abort(EMaxLoanExceeded)
    ELSE IF ~(pool.balance >= amount) THEN Abort(EInsufficientBalance)
    ELSE IF amount * pool.fee_rate > MAX_U64 THEN ArithmeticError
    ELSE IF pool.total_loans_issued + 1 > MAX_U64 THEN ArithmeticError
    ELSE Ok

borrow_fee(pool, amount) == (amount * pool.fee_rate) \div BpsDenominator

\* Variant: the loan is not counted.
borrow_pool_uncounted(pool, amount) ==
    [pool EXCEPT !.balance = @ - amount]

borrow_pool(pool, amount) ==
    [pool EXCEPT !.balance = @ - amount, !.total_loans_issued = @ + 1]

\* borrow, with the number of loans issued capped at `cap`.
borrow_capped(pid, amount, cap) ==
    /\ CanCall
    /\ txSender \in Borrowers
    /\ pid \in 1..Len(chain.pools)
    /\ LET pool == w.pools[pid]
           res == borrow_check(pool, amount)
           loan == FlashLoan(w.nextLoan, amount, borrow_fee(pool, amount), txSender, pid)
       IN IF res = Ok
          THEN /\ w.nextLoan <= cap
               /\ w' = [w EXCEPT !.pools[pid] = borrow_pool(pool, amount),
                                 !.loans = @ \cup {[loan |-> loan, owner |-> InTx]},
                                 !.nextLoan = @ + 1,
                                 !.borrowed = Append(@, clock)]
               /\ txStatus' = txStatus
               /\ lastOp' = Op("borrow", res, txSender, pid, amount, 0, loan, amount, pool)
          ELSE /\ txStatus' = "aborted"
               /\ lastOp' = Op("borrow", res, txSender, pid, amount, 0, NoLoan, 0, pool)
               /\ w' = w
    /\ UNCHANGED <<chain, txSender, dvars, clock>>

borrow(pid, amount) == borrow_capped(pid, amount, MaxLoans)

\* ---------------------------------------------------------------- repay
\* Loans the running transaction can pass by value: those it holds and the
\* FlashLoan objects its sender owns.
Usable == {o.loan : o \in {x \in w.loans : x.owner \in {InTx, txSender}}}

\* Variant: the payment is checked before the borrower.
repay_check_payment_first(pool, loan, sender, payment) ==
    IF loan.amount + loan.fee > MAX_U64 THEN ArithmeticError
    ELSE IF ~(payment >= loan.amount + loan.fee) THEN Abort(EInvalidRepayment)
    ELSE IF ~(sender = loan.borrower) THEN Abort(EUnauthorizedAccess)
    ELSE IF pool.balance + payment > MAX_U64 THEN ArithmeticError
    ELSE IF pool.total_fees_collected + loan.fee > MAX_U64 THEN ArithmeticError
    ELSE Ok

\* Variant: a loan cannot be repaid once the clock has moved on.
repay_check_expiring(pool, loan, sender, payment) ==
    IF ~(sender = loan.borrower) THEN Abort(EUnauthorizedAccess)
    ELSE IF clock > w.borrowed[loan.id] THEN Abort(ELoanExpired)
    ELSE IF loan.amount + loan.fee > MAX_U64 THEN ArithmeticError
    ELSE IF ~(payment >= loan.amount + loan.fee) THEN Abort(EInvalidRepayment)
    ELSE IF pool.balance + payment > MAX_U64 THEN ArithmeticError
    ELSE IF pool.total_fees_collected + loan.fee > MAX_U64 THEN ArithmeticError
    ELSE Ok

\* Variant: repay requires an active pool, as borrow does.
repay_check_active(pool, loan, sender, payment) ==
    IF ~pool.active THEN Abort(EPoolNotActive)
    ELSE IF ~(sender = loan.borrower) THEN Abort(EUnauthorizedAccess)
    ELSE IF loan.amount + loan.fee > MAX_U64 THEN ArithmeticError
    ELSE IF ~(payment >= loan.amount + loan.fee) THEN Abort(EInvalidRepayment)
    ELSE IF pool.balance + payment > MAX_U64 THEN ArithmeticError
    ELSE IF pool.total_fees_collected + loan.fee > MAX_U64 THEN ArithmeticError
    ELSE Ok

\* The assertions of repay in program order, with its checked u64 arithmetic.
repay_check(pool, loan, sender, payment) ==
    IF ~(sender = loan.borrower) THEN Abort(EUnauthorizedAccess)
    ELSE IF loan.amount + loan.fee > MAX_U64 THEN ArithmeticError
    ELSE IF ~(payment >= loan.amount + loan.fee) THEN Abort(EInvalidRepayment)
    ELSE IF pool.balance + payment > MAX_U64 THEN ArithmeticError
    ELSE IF pool.total_fees_collected + loan.fee > MAX_U64 THEN ArithmeticError
    ELSE Ok

repay_profit(loan, payment) ==
    IF payment > loan.amount + loan.fee THEN payment - loan.amount - loan.fee ELSE 0

\* Variant: only amount + fee is deposited, the excess is not.
repay_pool_due_only(pool, loan, payment) ==
    [pool EXCEPT !.balance = @ + loan.amount + loan.fee, !.total_fees_collected = @ + loan.fee]

\* Variant: the fee is counted but only the principal is deposited.
repay_pool_principal_only(pool, loan, payment) ==
    [pool EXCEPT !.balance = @ + payment - loan.fee, !.total_fees_collected = @ + loan.fee]

\* Variant: the fee collected is recomputed from the pool's current rate.
repay_pool_current_rate(pool, loan, payment) ==
    [pool EXCEPT !.balance = @ + payment,
                 !.total_fees_collected = @ + borrow_fee(pool, loan.amount)]

\* Variant: a repayment is counted as a loan issued.
repay_pool_counts_loan(pool, loan, payment) ==
    [pool EXCEPT !.balance = @ + payment, !.total_fees_collected = @ + loan.fee,
                 !.total_loans_issued = @ + 1]

repay_pool(pool, loan, payment) ==
    [pool EXCEPT !.balance = @ + payment, !.total_fees_collected = @ + loan.fee]

\* Variant: the loan object survives the call.
unpack_loan_kept(objs, loan) == objs

\* let FlashLoan { .. } = loan; object::delete(id): the loan object is gone.
unpack_loan(objs, loan) == {o \in objs : o.loan # loan}

\* Payments tried against a loan: below, at and above amount + fee.
Payments(loan) ==
    {p \in {loan.amount + loan.fee - 1, loan.amount + loan.fee,
            loan.amount + loan.fee + 7} : p >= 0 /\ p <= MAX_U64}

repay(pid, loan, payment) ==
    /\ CanCall
    /\ pid \in 1..Len(chain.pools)
    /\ loan \in Usable
    /\ LET pool == w.pools[pid]
           res == repay_check(pool, loan, txSender, payment)
       IN IF res = Ok
          THEN /\ w' = [w EXCEPT !.pools[pid] = repay_pool(pool, loan, payment),
                                 !.loans = unpack_loan(@, loan),
                                 !.consumed = @ \cup {loan.id},
                                 !.settled = @ \cup {[loan |-> loan, pool |-> pid]},
                                 !.repays = @ + 1]
               /\ txStatus' = txStatus
               /\ lastOp' = Op("repay", res, txSender, pid, loan.amount, payment, loan,
                               repay_profit(loan, payment), pool)
          ELSE /\ txStatus' = "aborted"
               /\ lastOp' = Op("repay", res, txSender, pid, loan.amount, payment, loan, 0, pool)
               /\ w' = w
    /\ UNCHANGED <<chain, txSender, dvars, clock>>

\* ---------------------------------------------------------------- FlashLoan has key, store
\* An object with `key` and `store` can be sent to an address by any
\* transaction that has it.
public_transfer(loan, recipient) ==
    /\ CanCall
    /\ loan \in Usable
    /\ w' = [w EXCEPT !.loans = unpack_loan(@, loan) \cup {[loan |-> loan, owner |-> recipient]}]
    /\ lastOp' = Op("public_transfer", Ok, txSender, loan.pool_id, 0, 0, loan, 0, NoPool)
    /\ UNCHANGED <<chain, txStatus, txSender, dvars, clock>>

\* ---------------------------------------------------------------- admin functions
\* Variant: anyone may switch the pool.
toggle_check_anyone(pool, sender) == Ok

toggle_check(pool, sender) ==
    IF ~(sender = pool.admin) THEN Abort(EUnauthorizedAccess) ELSE Ok

toggle_pool_status(pid) ==
    /\ CanCall
    /\ pid \in 1..Len(chain.pools)
    /\ LET pool == w.pools[pid]
           res == toggle_check(pool, txSender)
       IN /\ lastOp' = Op("toggle_pool_status", res, txSender, pid, 0, 0, NoLoan, 0, pool)
          /\ IF res = Ok
             THEN /\ w' = [w EXCEPT !.pools[pid].active = ~@]
                  /\ txStatus' = txStatus
             ELSE /\ txStatus' = "aborted"
                  /\ w' = w
    /\ UNCHANGED <<chain, txSender, dvars, clock>>

\* Variant: the rate is checked before the sender.
update_fee_rate_check_rate_first(pool, sender, new_fee_rate) ==
    IF ~(new_fee_rate <= MaxFeeRate) THEN Abort(EInvalidConfiguration)
    ELSE IF ~(sender = pool.admin) THEN Abort(EUnauthorizedAccess)
    ELSE Ok

update_fee_rate_check(pool, sender, new_fee_rate) ==
    IF ~(sender = pool.admin) THEN Abort(EUnauthorizedAccess)
    ELSE IF ~(new_fee_rate <= MaxFeeRate) THEN Abort(EInvalidConfiguration)
    ELSE Ok

update_fee_rate(pid, new_fee_rate) ==
    /\ CanCall
    /\ pid \in 1..Len(chain.pools)
    /\ LET pool == w.pools[pid]
           res == update_fee_rate_check(pool, txSender, new_fee_rate)
       IN /\ lastOp' = Op("update_fee_rate", res, txSender, pid, new_fee_rate, 0, NoLoan, 0, pool)
          /\ IF res = Ok
             THEN /\ w' = [w EXCEPT !.pools[pid].fee_rate = new_fee_rate]
                  /\ txStatus' = txStatus
             ELSE /\ txStatus' = "aborted"
                  /\ w' = w
    /\ UNCHANGED <<chain, txSender, dvars, clock>>

\* ---------------------------------------------------------------- view functions
pool_balance(pool) == pool.balance

pool_fee_rate(pool) == pool.fee_rate

pool_stats(pool) == <<pool.total_loans_issued, pool.total_fees_collected, pool.active>>

\* ---------------------------------------------------------------- execute_arbitrage
\* Variant: the profit has to exceed min_profit.
execute_arbitrage_check_strict(amount, min_profit) ==
    IF ~(amount \div ArbitrageProfitDivisor > min_profit)
    THEN Abort(EArbitrageProfitTooLow)
    ELSE Ok

\* let profit = amount / 100; assert!(profit >= min_profit, 100)
execute_arbitrage_check(amount, min_profit) ==
    IF ~(amount \div ArbitrageProfitDivisor >= min_profit)
    THEN Abort(EArbitrageProfitTooLow)
    ELSE Ok

\* flash_loan::execute_arbitrage on two distinct shared pools: the profit is
\* simulated and an event emitted; neither pool is written.
execute_arbitrage(pool_a, pool_b, amount, min_profit) ==
    /\ CanCall
    /\ pool_a \in 1..Len(chain.pools)
    /\ pool_b \in 1..Len(chain.pools)
    /\ pool_a # pool_b
    /\ LET res == execute_arbitrage_check(amount, min_profit)
           profit == amount \div ArbitrageProfitDivisor
       IN /\ lastOp' = Op("execute_arbitrage", res, txSender, pool_a, amount, 0, NoLoan,
                          IF res = Ok THEN profit ELSE 0, w.pools[pool_a])
                          @@ [pool_b |-> pool_b, min_profit |-> min_profit]
          /\ txStatus' = IF res = Ok THEN txStatus ELSE "aborted"
          /\ w' = w
    /\ UNCHANGED <<chain, txSender, dvars, clock>>

\* ---------------------------------------------------------------- arbitrage_detector
\* a * b does not fit the word (decided without forming the product).
MulOverflows(a, b) == b > 0 /\ a > MAX_U64_DETECTOR \div b

\* calculate_amm_price: the price, or "arith" when reserve_b * 1000000 overflows.
calculate_amm_price(reserve_a, reserve_b) ==
    IF reserve_a = 0 THEN [status |-> "ok", value |-> 0]
    ELSE IF MulOverflows(reserve_b, PriceScale) THEN [status |-> "arith", value |-> 0]
    ELSE [status |-> "ok", value |-> (reserve_b * PriceScale) \div reserve_a]

\* The arithmetic of detect_dex_arbitrage in evaluation order:
\* price_diff * 10000, then price_a + price_b, then the division.
dex_relative_diff(price_a, price_b) ==
    LET price_diff == IF price_a > price_b THEN price_a - price_b ELSE price_b - price_a
    IN IF MulOverflows(price_diff, RelativeDiffScale) THEN [status |-> "arith", value |-> 0]
       ELSE IF price_a > MAX_U64_DETECTOR - price_b THEN [status |-> "arith", value |-> 0]
       ELSE IF (price_a + price_b) \div 2 = 0 THEN [status |-> "div0", value |-> 0]
       ELSE [status |-> "ok",
             value |-> (price_diff * RelativeDiffScale) \div ((price_a + price_b) \div 2)]

\* Variant: the opportunity expires when it is created.
create_opportunity_expired(pool_a, pool_b, price_a, price_b, price_diff, profit, amount, opp_type, now) ==
    [pool_a_id |-> pool_a, pool_b_id |-> pool_b, price_a |-> price_a, price_b |-> price_b,
     price_difference |-> price_diff, potential_profit |-> profit,
     recommended_amount |-> amount, opportunity_type |-> opp_type,
     created_at |-> now, expires_at |-> now, executed |-> FALSE]

\* create_opportunity: the ArbitrageOpportunity added to the table.
create_opportunity(pool_a, pool_b, price_a, price_b, price_diff, profit, amount, opp_type, now) ==
    [pool_a_id |-> pool_a, pool_b_id |-> pool_b, price_a |-> price_a, price_b |-> price_b,
     price_difference |-> price_diff, potential_profit |-> profit,
     recommended_amount |-> amount, opportunity_type |-> opp_type,
     created_at |-> now, expires_at |-> now + OpportunityLifetime, executed |-> FALSE]

\* Variant: nothing is recorded once max_opportunities are in the table.
record_opportunity_capped(d, opp) ==
    IF Len(d.opportunities) >= d.max_opportunities THEN d
    ELSE [d EXCEPT !.opportunities = Append(@, opp)]

\* table::add(&mut detector.opportunities, opp_id, opportunity)
record_opportunity(d, opp) == [d EXCEPT !.opportunities = Append(@, opp)]

\* detect_dex_arbitrage, with the number of recorded opportunities capped at `cap`.
detect_dex_arbitrage_capped(pool_a_info, pool_b_info, now, cap) ==
    LET pa == calculate_amm_price(pool_a_info.reserve_a, pool_a_info.reserve_b)
        pb == calculate_amm_price(pool_b_info.reserve_a, pool_b_info.reserve_b)
        rel == dex_relative_diff(pa.value, pb.value)
        price_diff == IF pa.value > pb.value THEN pa.value - pb.value ELSE pb.value - pa.value
        status == IF pa.status # "ok" THEN pa.status
                  ELSE IF pb.status # "ok" THEN pb.status
                  ELSE rel.status
        fires == status = "ok" /\ rel.value > detector.min_profit_threshold
    IN /\ fires => Len(detector.opportunities) < cap
       /\ detector' =
            IF fires
            THEN record_opportunity(detector,
                     create_opportunity(pool_a_info.pool_id, pool_b_info.pool_id,
                                        pa.value, pb.value, price_diff, rel.value,
                                        RecommendedAmount, "dex_arbitrage", now))
            ELSE detector
       /\ lastDetect' = Detect("detect_dex_arbitrage", status, fires, pool_a_info, pool_b_info)
       /\ UNCHANGED <<vars, oracle, manager, lastCall, clock>>

detect_dex_arbitrage(pool_a_info, pool_b_info, now) ==
    detect_dex_arbitrage_capped(pool_a_info, pool_b_info, now, MaxOpps)

\* The arithmetic of detect_cross_chain_arbitrage in evaluation order.
cross_chain_relative_diff(sui_price, external_price) ==
    LET price_diff == IF sui_price > external_price THEN sui_price - external_price
                      ELSE external_price - sui_price
    IN IF MulOverflows(price_diff, 10000) THEN [status |-> "arith", value |-> 0]
       ELSE IF sui_price > MAX_U64_DETECTOR - external_price
            THEN [status |-> "arith", value |-> 0]
       ELSE IF (sui_price + external_price) \div 2 = 0 THEN [status |-> "div0", value |-> 0]
       ELSE [status |-> "ok",
             value |-> (price_diff * 10000) \div ((sui_price + external_price) \div 2)]

\* detect_cross_chain_arbitrage emits an OpportunityDetected event when it
\* fires and writes nothing to the detector.
detect_cross_chain_arbitrage(sui_price, external_price, now) ==
    LET rel == cross_chain_relative_diff(sui_price, external_price)
        fires == rel.status = "ok" /\ rel.value > detector.min_profit_threshold * 2
    IN /\ detector' = detector
       /\ lastDetect' = Detect("detect_cross_chain_arbitrage", rel.status, fires,
                               sui_price, external_price)
       /\ UNCHANGED <<vars, oracle, manager, lastCall, clock>>

\* The arithmetic of detect_liquidation_opportunity in evaluation order:
\* collateral_value * 10000, the division by debt_value and, when the ratio
\* is below the threshold, debt_value * 500 and debt_value - collateral_value.
liquidation_check(collateral_value, debt_value, liquidation_threshold) ==
    IF MulOverflows(collateral_value, 10000) THEN [status |-> "arith", value |-> FALSE]
    ELSE IF debt_value = 0 THEN [status |-> "div0", value |-> FALSE]
    ELSE IF (collateral_value * 10000) \div debt_value < liquidation_threshold
         THEN IF MulOverflows(debt_value, 500) THEN [status |-> "arith", value |-> FALSE]
              ELSE IF debt_value < collateral_value THEN [status |-> "arith", value |-> FALSE]
              ELSE [status |-> "ok", value |-> TRUE]
    ELSE [status |-> "ok", value |-> FALSE]

\* detect_liquidation_opportunity emits an OpportunityDetected event when it
\* fires and writes nothing to the detector.
detect_liquidation_opportunity(collateral_value, debt_value, liquidation_threshold, now) ==
    LET res == liquidation_check(collateral_value, debt_value, liquidation_threshold)
    IN /\ detector' = detector
       /\ lastDetect' = Detect("detect_liquidation_opportunity", res.status, res.value,
                               <<collateral_value, debt_value>>, liquidation_threshold)
       /\ UNCHANGED <<vars, oracle, manager, lastCall, clock>>

opportunity_count(d) == Len(d.opportunities)

\* ---------------------------------------------------------------- tables
\* table::add, or the write through table::borrow_mut when the key exists.
Put(table, key, value) ==
    [k \in DOMAIN table \cup {key} |-> IF k = key THEN value ELSE table[k]]

\* ---------------------------------------------------------------- admin functions of the detector
register_pool_check(d, sender) ==
    IF ~(sender = d.admin) THEN Abort(EUnauthorized) ELSE Ok

\* Variant: the pool id is pushed whether or not it is registered.
register_pool_push_always(sender, pool_id) ==
    LET res == register_pool_check(detector, sender)
    IN /\ detector' =
            IF res = Ok
            THEN [detector EXCEPT !.registered_pools = Append(@, pool_id)]
            ELSE detector
       /\ lastCall' = Call("register_pool", res, sender, <<pool_id>>, detector)
       /\ UNCHANGED <<vars, lastDetect, oracle, manager, clock>>

\* arbitrage_detector::register_pool
register_pool(sender, pool_id) ==
    LET res == register_pool_check(detector, sender)
        contains == \E i \in DOMAIN detector.registered_pools :
                        detector.registered_pools[i] = pool_id
    IN /\ detector' =
            IF res = Ok /\ ~contains
            THEN [detector EXCEPT !.registered_pools = Append(@, pool_id)]
            ELSE detector
       /\ lastCall' = Call("register_pool", res, sender, <<pool_id>>, detector)
       /\ UNCHANGED <<vars, lastDetect, oracle, manager, clock>>

\* Variant: the price is checked before the sender.
update_price_check_price_first(o, sender, price) ==
    IF ~(price > 0) THEN Abort(EInvalidPrice)
    ELSE IF ~(sender = o.admin) THEN Abort(EUnauthorized)
    ELSE Ok

update_price_check(o, sender, price) ==
    IF ~(sender = o.admin) THEN Abort(EUnauthorized)
    ELSE IF ~(price > 0) THEN Abort(EInvalidPrice)
    ELSE Ok

\* Variant: the timestamp of an existing entry is kept.
update_price_tables_keep_time(o, token_name, price, now) ==
    [o EXCEPT !.prices = Put(@, token_name, price),
              !.last_updated = IF token_name \in DOMAIN @ THEN @
                               ELSE Put(@, token_name, now)]

update_price_tables(o, token_name, price, now) ==
    [o EXCEPT !.prices = Put(@, token_name, price),
              !.last_updated = Put(@, token_name, now)]

update_price(sender, token_name, price, now) ==
    LET res == update_price_check(oracle, sender, price)
    IN /\ oracle' = IF res = Ok THEN update_price_tables(oracle, token_name, price, now)
                    ELSE oracle
       /\ lastCall' = Call("update_price", res, sender, <<token_name, price, now>>, oracle)
       /\ UNCHANGED <<vars, detector, lastDetect, manager, clock>>

get_price(o, token_name) ==
    IF token_name \in DOMAIN o.prices THEN o.prices[token_name] ELSE 0

\* ---------------------------------------------------------------- deepbook_integration
\* Variant: base and quote asset are exchanged.
PoolConfig_swapped(pool_id, base_asset, quote_asset, network) ==
    [pool_id |-> pool_id, base_asset |-> quote_asset, quote_asset |-> base_asset,
     network |-> network, active |-> TRUE]

\* Variant: the entry is stored deactivated.
PoolConfig_inactive(pool_id, base_asset, quote_asset, network) ==
    [pool_id |-> pool_id, base_asset |-> base_asset, quote_asset |-> quote_asset,
     network |-> network, active |-> FALSE]

\* struct PoolConfig, as register_pool fills it
PoolConfig(pool_id, base_asset, quote_asset, network) ==
    [pool_id |-> pool_id, base_asset |-> base_asset, quote_asset |-> quote_asset,
     network |-> network, active |-> TRUE]

deepbook_register_pool_check(m, sender) ==
    IF ~(sender = m.admin) THEN Abort(EUnauthorizedManager) ELSE Ok

\* deepbook_integration::register_pool
deepbook_register_pool(sender, network, pool_id, base_asset, quote_asset) ==
    LET res == deepbook_register_pool_check(manager, sender)
        config == PoolConfig(pool_id, base_asset, quote_asset, network)
    IN /\ manager' = IF res = Ok
                     THEN [manager EXCEPT !.registered_pools = Put(@, network, config)]
                     ELSE manager
       /\ lastCall' = Call("deepbook_register_pool", res, sender,
                           <<network, pool_id, base_asset, quote_asset>>, manager)
       /\ UNCHANGED <<vars, detector, lastDetect, oracle, clock>>

get_pool_config(m, network) == m.registered_pools[network]

is_pool_active(m, network) ==
    IF network \in DOMAIN m.registered_pools THEN m.registered_pools[network].active
    ELSE FALSE

get_registered_networks(m) == Cardinality(DOMAIN m.registered_pools)

\* The catalog after the two register_pool calls of setup_testnet_pools.
testnet_pools(m) ==
    [m EXCEPT !.registered_pools =
        Put(Put(@, "testnet_sui_usdc",
                PoolConfig("0x123456789abcdef", "SUI", "USDC", "testnet_sui_usdc")),
            "testnet_sui_usdt",
            PoolConfig("0x987654321fedcba", "SUI", "USDT", "testnet_sui_usdt"))]

\* deepbook_integration::setup_testnet_pools
setup_testnet_pools(sender) ==
    LET res == deepbook_register_pool_check(manager, sender)
    IN /\ manager' = IF res = Ok THEN testnet_pools(manager) ELSE manager
       /\ lastCall' = Call("setup_testnet_pools", res, sender, <<>>, manager)
       /\ UNCHANGED <<vars, detector, lastDetect, oracle, clock>>

\* The catalog after the two register_pool calls of setup_mainnet_pools.
mainnet_pools(m) ==
    [m EXCEPT !.registered_pools =
        Put(Put(@, "mainnet_sui_usdc",
                PoolConfig("0xmainnet123456789abcdef", "SUI", "USDC", "mainnet_sui_usdc")),
            "mainnet_sui_usdt",
            PoolConfig("0xmainnet987654321fedcba", "SUI", "USDT", "mainnet_sui_usdt"))]

\* deepbook_integration::setup_mainnet_pools
setup_mainnet_pools(sender) ==
    LET res == deepbook_register_pool_check(manager, sender)
    IN /\ manager' = IF res = Ok THEN mainnet_pools(manager) ELSE manager
       /\ lastCall' = Call("setup_mainnet_pools", res, sender, <<>>, manager)
       /\ UNCHANGED <<vars, detector, lastDetect, oracle, clock>>

execute_deepbook_flash_loan_check(m, network) ==
    IF ~(network \in DOMAIN m.registered_pools) THEN Abort(EPoolNotFound)
    ELSE IF ~m.registered_pools[network].active THEN Abort(EPoolNotFound)
    ELSE Ok

\* deepbook_integration::execute_deepbook_flash_loan: checks the venue and
\* emits an event; the manager is not written.
execute_deepbook_flash_loan(sender, network, amount) ==
    /\ lastCall' = Call("execute_deepbook_flash_loan",
                        execute_deepbook_flash_loan_check(manager, network),
                        sender, <<network, amount>>, manager)
    /\ UNCHANGED <<vars, detector, lastDetect, oracle, manager, clock>>

\* Variant: only the first venue is looked up.
execute_cross_network_arbitrage_check_first_only(m, testnet_pool, mainnet_pool) ==
    IF ~(testnet_pool \in DOMAIN m.registered_pools) THEN Abort(EPoolNotFound)
    ELSE Ok

execute_cross_network_arbitrage_check(m, testnet_pool, mainnet_pool) ==
    IF ~(testnet_pool \in DOMAIN m.registered_pools) THEN Abort(EPoolNotFound)
    ELSE IF ~(mainnet_pool \in DOMAIN m.registered_pools) THEN Abort(EPoolNotFound)
    ELSE Ok

\* deepbook_integration::execute_cross_network_arbitrage
execute_cross_network_arbitrage(sender, testnet_pool, mainnet_pool, amount) ==
    /\ lastCall' = Call("execute_cross_network_arbitrage",
                        execute_cross_network_arbitrage_check(manager, testnet_pool,
                                                              mainnet_pool),
                        sender, <<testnet_pool, mainnet_pool, amount>>, manager)
    /\ UNCHANGED <<vars, detector, lastDetect, oracle, manager, clock>>

\* The venue is looked up, then (debt_amount * 500) / 10000 is computed in u64.
execute_liquidation_arbitrage_check(m, network, debt_amount) ==
    IF ~(network \in DOMAIN m.registered_pools) THEN Abort(EPoolNotFound)
    ELSE IF MulOverflows(debt_amount, LiquidationBonus) THEN ArithmeticError
    ELSE Ok

\* deepbook_integration::execute_liquidation_arbitrage
execute_liquidation_arbitrage(sender, network, collateral_amount, debt_amount) ==
    /\ lastCall' = Call("execute_liquidation_arbitrage",
                        execute_liquidation_arbitrage_check(manager, network, debt_amount),
                        sender, <<network, collateral_amount, debt_amount>>, manager)
    /\ UNCHANGED <<vars, detector, lastDetect, oracle, manager, clock>>

\* ---------------------------------------------------------------- clock
\* Time passes between two transactions.
Tick ==
    /\ txStatus = "idle"
    /\ clock < MaxTicks * ClockStep
    /\ clock' = clock + ClockStep
    /\ UNCHANGED <<vars, dvars>>

\* ---------------------------------------------------------------- specifications
\* The loan protocol: pools, loans, transfers of loan objects, pool switch.
Next ==
    \/ \E s \in Addresses : BeginTx(s)
    \/ CommitTx
    \/ RollbackTx
    \/ \E b \in InitialBalances, f \in FeeRates, m \in MaxLoanAmounts : create_pool(b, f, m)
    \/ \E pid \in 1..MaxPools, a \in Amounts : borrow(pid, a)
    \/ \E pid \in 1..MaxPools, l \in Usable : \E p \in Payments(l) : repay(pid, l, p)
    \/ \E l \in Usable, r \in Addresses : public_transfer(l, r)
    \/ \E pid \in 1..MaxPools : toggle_pool_status(pid)

Spec == Init /\ [][Next]_allvars

\* Runs of borrow-repay cycles of one amount on the first pool, at a fixed rate.
CycleNext ==
    \/ \E s \in Addresses : BeginTx(s)
    \/ CommitTx
    \/ RollbackTx
    \/ \E b \in InitialBalances, f \in FeeRates, m \in MaxLoanAmounts : create_pool(b, f, m)
    \/ borrow_capped(1, CycleAmount, MaxCycles)
    \/ \E l \in Usable : \E p \in Payments(l) : repay(1, l, p)

CycleSpec == Init /\ [][CycleNext]_allvars

\* The fee rate of the first pool: pools of any rate, loans that stay
\* outstanding while the admin changes the rate.
FeeNext ==
    \/ \E s \in Addresses : BeginTx(s)
    \/ CommitTx
    \/ RollbackTx
    \/ \E b \in InitialBalances, f \in FeeRates \cup HighFeeRates, m \in MaxLoanAmounts :
          create_pool(b, f, m)
    \/ borrow(1, CycleAmount)
    \/ \E l \in Usable : \E p \in Payments(l) : repay(1, l, p)
    \/ \E l \in Usable : public_transfer(l, txSender)
    \/ \E r \in NewFeeRates : update_fee_rate(1, r)

FeeSpec == Init /\ [][FeeNext]_allvars

\* The three detection functions, called on snapshots of two pools, on two
\* prices and on a position.
DetectNext ==
    \/ \E ra \in ReserveSnapshots, rb \in ReserveSnapshots, now \in Timestamps :
          detect_dex_arbitrage(PoolInfo("POOL_A", ra[1], ra[2]),
                               PoolInfo("POOL_B", rb[1], rb[2]), now)
    \/ \E pa \in CrossPrices, pb \in CrossPrices, now \in Timestamps :
          detect_cross_chain_arbitrage(pa, pb, now)
    \/ \E c \in CollateralValues, d \in DebtValues, t \in LiquidationThresholds,
          now \in Timestamps : detect_liquidation_opportunity(c, d, t, now)

DetectSpec == Init /\ [][DetectNext]_allvars

\* The price oracle, written by its admin and by others as time passes.
OracleNext ==
    \/ \E s \in Addresses, t \in TokenNames, p \in OraclePrices : update_price(s, t, p, clock)
    \/ Tick

OracleSpec == Init /\ [][OracleNext]_allvars

\* Arbitrage between two pools, in transactions that also borrow.
ArbNext ==
    \/ \E s \in Addresses : BeginTx(s)
    \/ CommitTx
    \/ RollbackTx
    \/ \E b \in InitialBalances, f \in FeeRates, m \in MaxLoanAmounts : create_pool(b, f, m)
    \/ \E p \in 1..MaxPools : borrow(p, CycleAmount)
    \/ \E l \in Usable : \E p \in 1..MaxPools, pay \in Payments(l) : repay(p, l, pay)
    \/ \E pa \in 1..MaxPools, pb \in 1..MaxPools, a \in ArbitrageAmounts, m \in MinProfits :
          execute_arbitrage(pa, pb, a, m)

ArbSpec == Init /\ [][ArbNext]_allvars

\* The list of monitored pools of the detector and the catalog of the manager.
RegistryNext ==
    \/ \E s \in Addresses, id \in PoolIds : register_pool(s, id)
    \/ \E s \in Addresses, n \in Networks, id \in PoolIds, b \in BaseAssets, q \in QuoteAssets :
          deepbook_register_pool(s, n, id, b, q)

RegistrySpec == Init /\ [][RegistryNext]_allvars

\* The adapter: its catalog is filled by hand and by the two setup functions,
\* and the execute functions are called with listed and unlisted venues.
ExecNext ==
    \/ \E s \in Addresses, n \in Networks, id \in ManualPoolIds, q \in QuoteAssets :
          deepbook_register_pool(s, n, id, "SUI", q)
    \/ \E s \in Addresses : setup_testnet_pools(s)
    \/ \E s \in Addresses : setup_mainnet_pools(s)
    \/ \E n \in Venues, a \in ExecAmounts : execute_deepbook_flash_loan(USER, n, a)
    \/ \E t \in Venues, n \in Venues, a \in ExecAmounts :
          execute_cross_network_arbitrage(USER, t, n, a)
    \/ \E n \in Venues, c \in CollateralAmounts, d \in DebtAmounts :
          execute_liquidation_arbitrage(USER, n, c, d)

ExecSpec == Init /\ [][ExecNext]_allvars

\* The detector called until its table holds more than max_opportunities,
\* each detection two clock steps after the last one recorded.
FillNext ==
    \/ \E rb \in FillSnapshots :
          detect_dex_arbitrage_capped(PoolInfo("POOL_A", 500, 500),
                                      PoolInfo("POOL_B", rb[1], rb[2]),
                                      opportunity_count(detector) * 2 * ClockStep, MaxRecorded)
    \/ detect_cross_chain_arbitrage(1000, 1003, opportunity_count(detector) * 2 * ClockStep)
    \/ detect_liquidation_opportunity(8000, 10000, 8500,
                                      opportunity_count(detector) * 2 * ClockStep)
    \/ register_pool(ADMIN, "POOL_A")

FillSpec == Init /\ [][FillNext]_allvars

\* Loans that stay outstanding while time passes.
ClockNext ==
    \/ \E s \in Addresses : BeginTx(s)
    \/ CommitTx
    \/ RollbackTx
    \/ \E b \in InitialBalances, f \in FeeRates, m \in MaxLoanAmounts : create_pool(b, f, m)
    \/ borrow(1, CycleAmount)
    \/ \E l \in Usable : \E p \in Payments(l) : repay(1, l, p)
    \/ \E l \in Usable : public_transfer(l, txSender)
    \/ Tick

ClockSpec == Init /\ [][ClockNext]_allvars

\* ================================================================ claims
LastPool == w.pools[lastOp.pool]

Live(st) == {o.loan : o \in st.loans}

Due(loan) == loan.amount + loan.fee

\* C1: no transaction that completes leaves a FlashLoan outstanding: on the
\* committed state there is never a live loan object.
C1_NoLoanOutlivesItsTransaction == chain.loans = {}

\* C2: a repay that succeeds is made on the pool that issued the loan.
C2_RepayOnlyOnIssuingPool ==
    (lastOp.op = "repay" /\ lastOp.status = "ok") => lastOp.loan.pool_id = lastOp.pool

\* C3: every successful repay consumes a loan issued by an earlier successful
\* borrow and not consumed before: the consumed ids are issued ids, no id is
\* consumed twice (as many repays as consumed ids), a consumed loan is no
\* longer live, and the repays never outnumber the borrows.
C3_RepayConsumesIssuedLoanOnce ==
    /\ w.consumed \subseteq 1..(w.nextLoan - 1)
    /\ w.repays = Cardinality(w.consumed)
    /\ w.repays <= w.nextLoan - 1
    /\ \A l \in Live(w) : l.id \notin w.consumed
    /\ (lastOp.op = "repay" /\ lastOp.status = "ok") => lastOp.loan.id \in w.consumed

C3_Witness ==
    /\ lastOp.op = "repay" /\ lastOp.status = "ok"
    /\ w.repays = 1
    /\ w.nextLoan = 2

\* C4: a borrow on an active pool with amount <= max_loan_amount and
\* amount <= balance succeeds, returns funds of value amount and the loan
\* {amount, floor(amount * fee_rate / 10000), caller, pool}, takes amount from
\* the balance, adds 1 to total_loans_issued and changes nothing else.
C4_BorrowSucceedsOnValidAmount ==
    (/\ lastOp.op = "borrow"
     /\ lastOp.pre.active
     /\ lastOp.amount <= lastOp.pre.max_loan_amount
     /\ lastOp.amount <= lastOp.pre.balance)
    => /\ lastOp.status = "ok"
       /\ lastOp.out = lastOp.amount
       /\ lastOp.loan.amount = lastOp.amount
       /\ lastOp.loan.fee = (lastOp.amount * lastOp.pre.fee_rate) \div 10000
       /\ lastOp.loan.borrower = lastOp.sender
       /\ lastOp.loan.pool_id = lastOp.pool
       /\ LastPool = [lastOp.pre EXCEPT !.balance = @ - lastOp.amount,
                                        !.total_loans_issued = @ + 1]

\* C5: a successful repay is made by the borrower with at least amount + fee;
\* it adds the whole payment to the balance, adds the loan's fee to
\* total_fees_collected, reports profit = payment - amount - fee, leaves the
\* other pool fields alone and consumes the loan.
C5_RepayEffect ==
    (lastOp.op = "repay" /\ lastOp.status = "ok")
    => /\ lastOp.sender = lastOp.loan.borrower
       /\ lastOp.payment >= Due(lastOp.loan)
       /\ LastPool = [lastOp.pre EXCEPT !.balance = @ + lastOp.payment,
                                        !.total_fees_collected = @ + lastOp.loan.fee]
       /\ lastOp.out = lastOp.payment - lastOp.loan.amount - lastOp.loan.fee
       /\ lastOp.loan \notin Live(w)

C5_Witness ==
    /\ lastOp.op = "repay" /\ lastOp.status = "ok"
    /\ lastOp.payment > Due(lastOp.loan)
    /\ lastOp.loan.fee > 0
    /\ lastOp.out > 0

\* C6: a repay with payment < amount + fee aborts with EInvalidRepayment,
\* leaves the pool as it was and does not consume the loan.
C6_UnderpaidRepayIsInvalidRepayment ==
    (lastOp.op = "repay" /\ lastOp.payment < Due(lastOp.loan))
    => /\ lastOp.status = "abort"
       /\ lastOp.code = EInvalidRepayment
       /\ LastPool = lastOp.pre
       /\ lastOp.loan \in Live(w)

\* C7: a repay by anyone but the loan's borrower aborts with
\* EUnauthorizedAccess whatever the payment, and the pool and the loan are
\* as before the call.
C7_UnauthorizedRepay ==
    (lastOp.op = "repay" /\ lastOp.sender # lastOp.loan.borrower)
    => /\ lastOp.status = "abort"
       /\ lastOp.code = EUnauthorizedAccess
       /\ LastPool = lastOp.pre
       /\ lastOp.loan \in Live(w)

C7_Witness ==
    /\ lastOp.op = "repay"
    /\ lastOp.sender # lastOp.loan.borrower
    /\ lastOp.payment < Due(lastOp.loan)
    /\ lastOp.code = EUnauthorizedAccess

\* A failed borrow produced no funds and no loan and left the pool alone.
BorrowAbortedWith(c) ==
    /\ lastOp.status = "abort"
    /\ lastOp.code = c
    /\ lastOp.out = 0
    /\ lastOp.loan = NoLoan
    /\ LastPool = lastOp.pre
    /\ w.nextLoan = Cardinality(w.consumed) + Cardinality(Live(w)) + 1

\* C8 (as stated): borrow aborts with EPoolNotActive when the pool is
\* inactive, with EMaxLoanExceeded when amount > max_loan_amount and with
\* EInsufficientBalance when amount > balance, each without any effect.
C8_BorrowFailureCodesAsStated ==
    lastOp.op = "borrow"
    => /\ ~lastOp.pre.active => BorrowAbortedWith(EPoolNotActive)
       /\ lastOp.amount > lastOp.pre.max_loan_amount => BorrowAbortedWith(EMaxLoanExceeded)
       /\ lastOp.amount > lastOp.pre.balance => BorrowAbortedWith(EInsufficientBalance)

\* C8 (amended): borrow aborts with EPoolNotActive when the pool is inactive,
\* with EMaxLoanExceeded when the pool is active and amount > max_loan_amount,
\* and with EInsufficientBalance when the pool is active, amount is within the
\* limit and amount > balance; each failure produces no funds and no loan and
\* leaves the pool as it was.
C8_BorrowFailureCodes ==
    lastOp.op = "borrow"
    => /\ ~lastOp.pre.active => BorrowAbortedWith(EPoolNotActive)
       /\ (lastOp.pre.active /\ lastOp.amount > lastOp.pre.max_loan_amount)
             => BorrowAbortedWith(EMaxLoanExceeded)
       /\ (/\ lastOp.pre.active
           /\ lastOp.amount <= lastOp.pre.max_loan_amount
           /\ lastOp.amount > lastOp.pre.balance)
             => BorrowAbortedWith(EInsufficientBalance)

C8_Witness ==
    /\ lastOp.op = "borrow"
    /\ lastOp.amount > lastOp.pre.max_loan_amount
    /\ lastOp.amount > lastOp.pre.balance
    /\ lastOp.pre.active
    /\ lastOp.code = EMaxLoanExceeded

\* C9: a transaction that borrowed and ends without a successful repay is
\* void: the on-chain state after it is the on-chain state before it.
C9_UnitWithoutRepayIsVoid ==
    [][(/\ txStatus # "idle"
        /\ txStatus' = "idle"
        /\ w.nextLoan > chain.nextLoan
        /\ w.repays = chain.repays)
       => chain' = chain]_vars

\* The step borrow(L) ; repay(L) with the exact payment, on the issuing pool.
ExactCycleStep ==
    /\ lastOp.op = "borrow" /\ lastOp.status = "ok"
    /\ lastOp'.op = "repay" /\ lastOp'.status = "ok"
    /\ lastOp'.loan = lastOp.loan
    /\ lastOp'.pool = lastOp.pool
    /\ lastOp'.payment = Due(lastOp.loan)

\* C10 (as stated): borrow then repay with payment = amount + fee leaves the
\* balance as it was before the borrow, adds 1 to total_loans_issued and fee
\* to total_fees_collected.
C10_ExactCycleKeepsBalance ==
    [][ExactCycleStep
       => w'.pools[lastOp.pool] =
              [lastOp.pre EXCEPT !.total_loans_issued = @ + 1,
                                 !.total_fees_collected = @ + lastOp.loan.fee]]_vars

\* C10 (amended): borrow then repay with payment = amount + fee leaves the
\* balance higher by exactly fee than before the borrow, adds 1 to
\* total_loans_issued and fee to total_fees_collected.
C10_ExactCycleAddsFee ==
    [][ExactCycleStep
       => w'.pools[lastOp.pool] =
              [lastOp.pre EXCEPT !.balance = @ + lastOp.loan.fee,
                                 !.total_loans_issued = @ + 1,
                                 !.total_fees_collected = @ + lastOp.loan.fee]]_vars

\* The loan repaid by the last call was issued by the call before it, in this
\* transaction, and carried a fee.
C10_Witness ==
    /\ lastOp.op = "repay" /\ lastOp.status = "ok"
    /\ lastOp.payment = Due(lastOp.loan)
    /\ lastOp.loan.fee > 0
    /\ lastOp.loan.pool_id = lastOp.pool
    /\ lastOp.loan.id = w.nextLoan - 1
    /\ lastOp.loan.id >= chain.nextLoan

\* C11: on a fresh pool with a fixed fee rate, once n borrow-repay cycles of
\* the same amount are complete the pool has issued n loans and collected
\* n times the fee of one loan (so two cycles count twice what one counts).
C11_CyclesAddUp ==
    (Len(w.pools) >= 1 /\ Live(w) = {})
    => LET pool == w.pools[1]
           fee == (CycleAmount * pool.fee_rate) \div 10000
       IN /\ pool.total_loans_issued = w.repays
          /\ pool.total_fees_collected = w.repays * fee

C11_Witness ==
    /\ Len(chain.pools) >= 1
    /\ Live(chain) = {}
    /\ chain.repays = 2
    /\ chain.pools[1].total_loans_issued = 2
    /\ chain.pools[1].total_fees_collected = 2

\* C12: the fee of a loan is the one computed at borrow with the rate then in
\* force: a borrow computes floor(amount * rate / 10000) with the pool's
\* current rate, no later call (update_fee_rate included) alters a live loan,
\* and repay by the borrower succeeds exactly when the payment covers
\* amount + that fee and adds that fee to total_fees_collected.
C12_FeeFixedAtBorrow ==
    [][/\ (lastOp'.op = "borrow" /\ lastOp'.status = "ok")
            => lastOp'.loan.fee =
                  (lastOp'.amount * w.pools[lastOp'.pool].fee_rate) \div 10000
       /\ lastOp'.op # "rollback"
            => \A l \in Live(w') : l.id < w.nextLoan => l \in Live(w)
       /\ (lastOp'.op = "repay" /\ lastOp'.sender = lastOp'.loan.borrower)
            => /\ (lastOp'.status = "ok") <=> (lastOp'.payment >= Due(lastOp'.loan))
               /\ lastOp'.loan \in Live(w)
               /\ lastOp'.status = "ok"
                    => w'.pools[lastOp'.pool].total_fees_collected =
                          w.pools[lastOp'.pool].total_fees_collected + lastOp'.loan.fee]_vars

\* A loan is repaid while the pool's rate gives another fee than the loan's.
C12_Witness ==
    /\ lastOp.op = "repay" /\ lastOp.status = "ok"
    /\ lastOp.payment = Due(lastOp.loan)
    /\ lastOp.loan.fee # (lastOp.loan.amount * lastOp.pre.fee_rate) \div 10000

\* C13: every pool has fee_rate <= 1000 in every reachable state.
C13_FeeRateAtMostTenPercent ==
    \A p \in DOMAIN w.pools : w.pools[p].fee_rate <= 1000

\* C14: update_fee_rate by anyone but the admin aborts with
\* EUnauthorizedAccess, by the admin with a rate above 1000 aborts with code
\* 101, and in both cases the pool is unchanged; by the admin with a rate of
\* at most 1000 it sets fee_rate to the new rate and changes nothing else.
C14_UpdateFeeRate ==
    lastOp.op = "update_fee_rate"
    => /\ lastOp.sender # lastOp.pre.admin
            => /\ lastOp.status = "abort" /\ lastOp.code = EUnauthorizedAccess
               /\ LastPool = lastOp.pre
       /\ (lastOp.sender = lastOp.pre.admin /\ lastOp.amount > 1000)
            => /\ lastOp.status = "abort" /\ lastOp.code = EInvalidConfiguration
               /\ LastPool = lastOp.pre
       /\ (lastOp.sender = lastOp.pre.admin /\ lastOp.amount <= 1000)
            => /\ lastOp.status = "ok"
               /\ LastPool = [lastOp.pre EXCEPT !.fee_rate = lastOp.amount]

C14_Witness ==
    /\ lastOp.op = "update_fee_rate" /\ lastOp.status = "ok"
    /\ lastOp.amount = 1000
    /\ LastPool.fee_rate # lastOp.pre.fee_rate

\* C15: toggle_pool_status by anyone but the admin aborts with
\* EUnauthorizedAccess and leaves the pool unchanged; by the admin it negates
\* active and changes nothing else; two successful toggles in a row give back
\* the pool as it was before the first.
C15_TogglePoolStatus ==
    [][/\ lastOp'.op = "toggle_pool_status"
            => /\ lastOp'.pre = w.pools[lastOp'.pool]
               /\ IF lastOp'.sender # lastOp'.pre.admin
                  THEN /\ lastOp'.status = "abort" /\ lastOp'.code = EUnauthorizedAccess
                       /\ w' = w
                  ELSE /\ lastOp'.status = "ok"
                       /\ w' = [w EXCEPT !.pools[lastOp'.pool].active = ~@]
       /\ (/\ lastOp.op = "toggle_pool_status" /\ lastOp.status = "ok"
           /\ lastOp'.op = "toggle_pool_status" /\ lastOp'.status = "ok"
           /\ lastOp'.pool = lastOp.pool)
            => w'.pools[lastOp.pool] = lastOp.pre]_vars

\* The admin has toggled a pool back to what it is on chain.
C15_Witness ==
    /\ lastOp.op = "toggle_pool_status" /\ lastOp.status = "ok"
    /\ txStatus = "running"
    /\ LastPool = chain.pools[lastOp.pool]
    /\ LastPool.active

\* C16: the pool create_pool(initial_balance, fee_rate, max_loan_amount)
\* publishes reads back pool_balance = initial_balance, pool_fee_rate =
\* fee_rate, pool_stats = (0, 0, true), and its admin is the creator.
C16_FreshPoolReadsBack ==
    lastOp.op = "create_pool"
    => /\ pool_balance(LastPool) = lastOp.amount
       /\ pool_fee_rate(LastPool) = lastOp.pre.fee_rate
       /\ pool_stats(LastPool) = <<0, 0, TRUE>>
       /\ LastPool.admin = lastOp.sender

C16_Witness ==
    /\ lastOp.op = "create_pool"
    /\ lastOp.pool = 2
    /\ pool_balance(LastPool) = 1200
    /\ pool_fee_rate(LastPool) = 30

\* C18: total_loans_issued and total_fees_collected of a pool never decrease
\* from one committed state to the next; inside a transaction they never
\* decrease either, total_loans_issued changes only by a successful borrow on
\* that pool and total_fees_collected only by a successful repay on it.
C18_CountersMonotonic ==
    [][/\ \A p \in DOMAIN chain.pools :
            /\ p \in DOMAIN chain'.pools
            /\ chain'.pools[p].total_loans_issued >= chain.pools[p].total_loans_issued
            /\ chain'.pools[p].total_fees_collected >= chain.pools[p].total_fees_collected
       /\ lastOp'.op # "rollback"
            => \A p \in DOMAIN w.pools :
                 /\ p \in DOMAIN w'.pools
                 /\ w'.pools[p].total_loans_issued >= w.pools[p].total_loans_issued
                 /\ w'.pools[p].total_fees_collected >= w.pools[p].total_fees_collected
                 /\ w'.pools[p].total_loans_issued # w.pools[p].total_loans_issued
                      => /\ lastOp'.op = "borrow" /\ lastOp'.status = "ok"
                         /\ lastOp'.pool = p
                 /\ w'.pools[p].total_fees_collected # w.pools[p].total_fees_collected
                      => /\ lastOp'.op = "repay" /\ lastOp'.status = "ok"
                         /\ lastOp'.pool = p]_vars

C18_Witness ==
    /\ Len(chain.pools) >= 1
    /\ chain.pools[1].total_loans_issued > 0
    /\ chain.pools[1].total_fees_collected > 0

\* The price of a snapshot and the relative difference of two prices, as
\* specified: reserve_quote * 1000000 / reserve_base (0 without base reserve)
\* and |pa - pb| * 10000 / ((pa + pb) / 2).
SpecPrice(info) ==
    IF info.reserve_a = 0 THEN 0 ELSE (info.reserve_b * 1000000) \div info.reserve_a

SpecRelativeDiffBps(pa, pb) ==
    ((IF pa > pb THEN pa - pb ELSE pb - pa) * 10000) \div ((pa + pb) \div 2)

\* C19: for every pair of reserve snapshots detect_dex_arbitrage returns, and
\* it returns true exactly when the relative difference of the two prices in
\* basis points is above min_profit_threshold.
C19_DexArbitrageIffAboveThreshold ==
    lastDetect.op = "detect_dex_arbitrage"
    => /\ lastDetect.status = "ok"
       /\ lastDetect.ret =
             (SpecRelativeDiffBps(SpecPrice(lastDetect.a), SpecPrice(lastDetect.b))
                > detector.min_profit_threshold)

\* C20: detect_dex_arbitrage never divides by zero: it does not abort on a
\* zero average of the two prices.
C20_DexArbitrageNeverDividesByZero ==
    lastDetect.op = "detect_dex_arbitrage" => lastDetect.status # "div0"

\* C21: a detect_dex_arbitrage call that returns true appends exactly one
\* opportunity of type dex_arbitrage carrying the two prices, their
\* difference and the relative difference in basis points, with executed =
\* false and expires_at = created_at + 300000, and changes nothing else of
\* the detector; a call that returns false leaves the detector as it was.
C21_DexDetectionEffect ==
    [][lastDetect'.op = "detect_dex_arbitrage"
       => IF lastDetect'.ret
          THEN LET pa == SpecPrice(lastDetect'.a)
                   pb == SpecPrice(lastDetect'.b)
                   opp == detector'.opportunities[Len(detector'.opportunities)]
               IN /\ opportunity_count(detector') = opportunity_count(detector) + 1
                  /\ [detector' EXCEPT !.opportunities =
                          SubSeq(@, 1, Len(detector.opportunities))] = detector
                  /\ opp.opportunity_type = "dex_arbitrage"
                  /\ opp.price_a = pa /\ opp.price_b = pb
                  /\ opp.price_difference = (IF pa > pb THEN pa - pb ELSE pb - pa)
                  /\ opp.potential_profit = SpecRelativeDiffBps(pa, pb)
                  /\ opp.executed = FALSE
                  /\ opp.expires_at = opp.created_at + 300000
          ELSE detector' = detector]_allvars

C21_Witness ==
    /\ lastDetect.op = "detect_dex_arbitrage" /\ lastDetect.ret
    /\ opportunity_count(detector) = 1
    /\ detector.opportunities[1].price_a = 1000000
    /\ detector.opportunities[1].price_b = 1002000
    /\ detector.opportunities[1].potential_profit = 19
    /\ detector.opportunities[1].expires_at = 301000

\* C22: for every pair of positive prices detect_cross_chain_arbitrage
\* returns, and it returns true exactly when
\* |local - external| * 10000 / ((local + external) / 2) is above twice
\* min_profit_threshold.
C22_CrossChainIffAboveDoubleThreshold ==
    (/\ lastDetect.op = "detect_cross_chain_arbitrage"
     /\ lastDetect.a > 0
     /\ lastDetect.b > 0)
    => /\ lastDetect.status = "ok"
       /\ lastDetect.ret =
             (SpecRelativeDiffBps(lastDetect.a, lastDetect.b)
                > 2 * detector.min_profit_threshold)

\* C23: a detect_cross_chain_arbitrage call that returns true leaves the
\* detector with one more opportunity than before.
C23_CrossChainRecordsOpportunity ==
    [][(lastDetect'.op = "detect_cross_chain_arbitrage" /\ lastDetect'.ret)
       => opportunity_count(detector') = opportunity_count(detector) + 1]_allvars

\* C24: for every (collateral_value, debt_value, liquidation_threshold)
\* detect_liquidation_opportunity returns without aborting, and it returns
\* true exactly when collateral_value * 10000 / debt_value is below the
\* threshold.
C24_LiquidationIffBelowThreshold ==
    lastDetect.op = "detect_liquidation_opportunity"
    => /\ lastDetect.status = "ok"
       /\ lastDetect.ret =
             ((lastDetect.a[1] * 10000) \div lastDetect.a[2] < lastDetect.b)

\* C25: a detect_liquidation_opportunity call that returns true leaves the
\* detector with one more opportunity than before, of type liquidation and
\* with potential_profit = floor(debt_value * 500 / 10000).
C25_LiquidationRecordsOpportunity ==
    [][(lastDetect'.op = "detect_liquidation_opportunity" /\ lastDetect'.ret)
       => /\ opportunity_count(detector') = opportunity_count(detector) + 1
          /\ LET opp == detector'.opportunities[Len(detector'.opportunities)]
             IN /\ opp.opportunity_type = "liquidation"
                /\ opp.potential_profit = (lastDetect'.a[2] * 500) \div 10000]_allvars

\* Every price stored in the oracle is positive.
StoredPricesPositive == \A t \in DOMAIN oracle.prices : oracle.prices[t] > 0

\* C26 (as stated): update_price by anyone but the admin aborts with
\* EUnauthorized, update_price with price = 0 aborts with EInvalidPrice, in
\* both cases the oracle is unchanged, and every stored price is > 0.
C26_UpdatePriceFailuresAsStated ==
    /\ lastCall.op = "update_price"
         => /\ lastCall.sender # lastCall.pre.admin
                 => /\ lastCall.status = "abort" /\ lastCall.code = EUnauthorized
                    /\ oracle = lastCall.pre
            /\ lastCall.args[2] = 0
                 => /\ lastCall.status = "abort" /\ lastCall.code = EInvalidPrice
                    /\ oracle = lastCall.pre
    /\ StoredPricesPositive

\* C26 (amended): update_price by anyone but the admin aborts with
\* EUnauthorized whatever the price, update_price by the admin with price = 0
\* aborts with EInvalidPrice, in both cases the oracle is unchanged, and every
\* stored price is > 0.
C26_UpdatePriceFailures ==
    /\ lastCall.op = "update_price"
         => /\ lastCall.sender # lastCall.pre.admin
                 => /\ lastCall.status = "abort" /\ lastCall.code = EUnauthorized
                    /\ oracle = lastCall.pre
            /\ (lastCall.sender = lastCall.pre.admin /\ lastCall.args[2] = 0)
                 => /\ lastCall.status = "abort" /\ lastCall.code = EInvalidPrice
                    /\ oracle = lastCall.pre
    /\ StoredPricesPositive

C26_Witness ==
    /\ lastCall.op = "update_price"
    /\ lastCall.sender # lastCall.pre.admin
    /\ lastCall.args[2] = 0
    /\ lastCall.code = EUnauthorized
    /\ DOMAIN oracle.prices = TokenNames

\* C27: after a successful update_price(symbol, p) at time t, get_price(symbol)
\* = p and last_updated(symbol) = t whatever was stored before, the entries
\* of the other symbols are as before, a symbol enters the tables only by a
\* successful update_price of that symbol, and get_price of a symbol that is
\* not in the tables is 0.
C27_LastWriteWins ==
    [][/\ (lastCall' # lastCall /\ lastCall'.op = "update_price" /\ lastCall'.status = "ok")
            => /\ get_price(oracle', lastCall'.args[1]) = lastCall'.args[2]
               /\ oracle'.last_updated[lastCall'.args[1]] = lastCall'.args[3]
               /\ lastCall'.args[3] = clock
               /\ \A t \in TokenNames \ {lastCall'.args[1]} :
                    /\ get_price(oracle', t) = get_price(oracle, t)
                    /\ t \in DOMAIN oracle'.last_updated <=> t \in DOMAIN oracle.last_updated
                    /\ t \in DOMAIN oracle.last_updated
                         => oracle'.last_updated[t] = oracle.last_updated[t]
       /\ \A t \in TokenNames :
            /\ (t \in DOMAIN oracle'.prices /\ t \notin DOMAIN oracle.prices)
                 => /\ lastCall'.op = "update_price" /\ lastCall'.status = "ok"
                    /\ lastCall'.args[1] = t
            /\ t \notin DOMAIN oracle'.prices => get_price(oracle', t) = 0]_allvars

\* A price and its timestamp are overwritten while the other symbol is stored.
C27_Witness ==
    /\ lastCall.op = "update_price" /\ lastCall.status = "ok"
    /\ DOMAIN lastCall.pre.prices = TokenNames
    /\ lastCall.pre.prices[lastCall.args[1]] # lastCall.args[2]
    /\ lastCall.pre.last_updated[lastCall.args[1]] < lastCall.args[3]
    /\ get_price(oracle, lastCall.args[1]) = lastCall.args[2]

\* C28: the detector's register_pool by anyone but the admin aborts and
\* leaves registered_pools unchanged; by the admin it appends the pool id when
\* it is not registered and changes nothing when it is, so registered_pools
\* holds each registered id once, in order of first registration.
C28_RegisterPoolIdempotent ==
    [][lastCall'.op = "register_pool"
       => /\ IF lastCall'.sender # detector.admin
             THEN /\ lastCall'.status = "abort" /\ lastCall'.code = EUnauthorized
                  /\ detector' = detector
             ELSE /\ lastCall'.status = "ok"
                  /\ IF \E i \in DOMAIN detector.registered_pools :
                           detector.registered_pools[i] = lastCall'.args[1]
                     THEN detector' = detector
                     ELSE detector' = [detector EXCEPT !.registered_pools =
                                          Append(@, lastCall'.args[1])]
          /\ \A i, j \in DOMAIN detector'.registered_pools :
                detector'.registered_pools[i] = detector'.registered_pools[j] => i = j]_allvars

\* The admin registers again the pool registered first, with two pools registered.
C28_Witness ==
    /\ lastCall.op = "register_pool" /\ lastCall.status = "ok"
    /\ Len(detector.registered_pools) = 2
    /\ lastCall.pre = detector
    /\ lastCall.args[1] = detector.registered_pools[1]

\* C29: the manager's register_pool by anyone but the admin aborts and leaves
\* the catalog unchanged; by the admin it makes get_pool_config(network) =
\* {pool_id, base, quote, network, active = true}, adds one entry exactly
\* when the network was not registered, and leaves the other entries alone.
C29_RegistryUpsert ==
    lastCall.op = "deepbook_register_pool"
    => IF lastCall.sender # lastCall.pre.admin
       THEN /\ lastCall.status = "abort" /\ lastCall.code = EUnauthorizedManager
            /\ manager = lastCall.pre
       ELSE /\ lastCall.status = "ok"
            /\ get_pool_config(manager, lastCall.args[1]) =
                  [pool_id |-> lastCall.args[2], base_asset |-> lastCall.args[3],
                   quote_asset |-> lastCall.args[4], network |-> lastCall.args[1],
                   active |-> TRUE]
            /\ is_pool_active(manager, lastCall.args[1])
            /\ get_registered_networks(manager) =
                  get_registered_networks(lastCall.pre)
                    + (IF lastCall.args[1] \in DOMAIN lastCall.pre.registered_pools
                       THEN 0 ELSE 1)
            /\ \A n \in DOMAIN lastCall.pre.registered_pools \ {lastCall.args[1]} :
                  get_pool_config(manager, n) = get_pool_config(lastCall.pre, n)
            /\ [manager EXCEPT !.registered_pools = lastCall.pre.registered_pools]
                  = lastCall.pre

\* An entry is overwritten while another network is registered.
C29_Witness ==
    /\ lastCall.op = "deepbook_register_pool" /\ lastCall.status = "ok"
    /\ lastCall.args[1] \in DOMAIN lastCall.pre.registered_pools
    /\ get_pool_config(manager, lastCall.args[1]) # get_pool_config(lastCall.pre, lastCall.args[1])
    /\ get_registered_networks(manager) = 2
    /\ get_registered_networks(lastCall.pre) = 2

C31_OpportunitiesAppendOnly ==
    [][/\ opportunity_count(detector') >= opportunity_count(detector)
       /\ SubSeq(detector'.opportunities, 1, Len(detector.opportunities))
             = detector.opportunities
       /\ \A i \in DOMAIN detector'.opportunities : ~detector'.opportunities[i].executed
       /\ (/\ lastCall' = lastCall
           /\ lastDetect'.op = "detect_dex_arbitrage"
           /\ lastDetect'.ret)
            => opportunity_count(detector') = opportunity_count(detector) + 1]_allvars

\* One opportunity more than max_opportunities is recorded, the last one
\* after the first has expired.
C31_Witness ==
    /\ lastDetect.op = "detect_dex_arbitrage" /\ lastDetect.ret
    /\ opportunity_count(detector) = detector.max_opportunities + 1
    /\ detector.opportunities[1].expires_at
         < detector.opportunities[opportunity_count(detector)].created_at

\* Calls of the execute functions of the adapter.
ExecuteOps ==
    {"execute_deepbook_flash_loan", "execute_cross_network_arbitrage",
     "execute_liquidation_arbitrage"}

\* The venue keys the last call was given.
VenueKeys ==
    IF lastCall.op = "execute_cross_network_arbitrage"
    THEN {lastCall.args[1], lastCall.args[2]}
    ELSE {lastCall.args[1]}

\* C32: an execute function given a venue key that is not registered fails
\* with PoolNotFound; whether an execute function fails or succeeds the
\* catalog is as it was before the call; is_pool_active answers false for a
\* venue that is not registered.
C32_ExecuteNeedsRegisteredVenue ==
    /\ lastCall.op \in ExecuteOps =>
          /\ manager = lastCall.pre
          /\ (\E k \in VenueKeys : k \notin DOMAIN lastCall.pre.registered_pools)
                => (lastCall.status = "abort" /\ lastCall.code = EPoolNotFound)
    /\ \A n \in Venues \cup Networks :
          n \notin DOMAIN manager.registered_pools => is_pool_active(manager, n) = FALSE

\* execute_cross_network_arbitrage failed on its second venue, the first
\* being registered.
C32_Witness ==
    /\ lastCall.op = "execute_cross_network_arbitrage"
    /\ lastCall.args[1] \in DOMAIN lastCall.pre.registered_pools
    /\ lastCall.args[2] \notin DOMAIN lastCall.pre.registered_pools
    /\ lastCall.status = "abort" /\ lastCall.code = EPoolNotFound
    /\ manager = lastCall.pre
    /\ ~is_pool_active(manager, lastCall.args[2])

\* Calls of the two setup functions of the adapter.
SetupOps == {"setup_testnet_pools", "setup_mainnet_pools"}

\* C39: after every step every stored PoolConfig is active, is_pool_active
\* answers true exactly for the registered venues, a failed
\* execute_deepbook_flash_loan was given a venue that is not registered, and
\* a setup function called again right after it succeeded leaves the catalog
\* as the first call left it.
C39_EntriesStayActive ==
    [][/\ \A n \in DOMAIN manager'.registered_pools : manager'.registered_pools[n].active
       /\ \A n \in Venues \cup Networks \cup DOMAIN manager'.registered_pools :
             is_pool_active(manager', n) <=> n \in DOMAIN manager'.registered_pools
       /\ (lastCall'.op = "execute_deepbook_flash_loan" /\ lastCall'.status # "ok")
             => lastCall'.args[1] \notin DOMAIN lastCall'.pre.registered_pools
       /\ (/\ lastCall.op \in SetupOps /\ lastCall.status = "ok"
           /\ lastCall'.op = lastCall.op /\ lastCall'.status = "ok")
             => manager' = manager]_allvars

\* setup_mainnet_pools succeeded a second time, next to a venue registered by
\* hand: the catalog is the one the first call left.
C39_Witness ==
    /\ lastCall.op = "setup_mainnet_pools" /\ lastCall.status = "ok"
    /\ "mainnet_sui_usdt" \in DOMAIN lastCall.pre.registered_pools
    /\ lastCall.pre = manager
    /\ "testnet_sui_usdc" \in DOMAIN manager.registered_pools
    /\ manager.registered_pools["testnet_sui_usdc"].pool_id \in ManualPoolIds
    /\ is_pool_active(manager, "mainnet_sui_usdt")
    /\ ~is_pool_active(manager, "unlisted")

\* C33: execute_arbitrage aborts, with code 100, exactly when
\* floor(amount / 100) < min_profit; whether it aborts or returns, the pools
\* and the loan objects of the transaction are as before the call.
C33_ExecuteArbitrage ==
    [][(lastOp' # lastOp /\ lastOp'.op = "execute_arbitrage") =>
         /\ (lastOp'.status = "abort" /\ lastOp'.code = EArbitrageProfitTooLow)
               <=> (lastOp'.amount \div 100 < lastOp'.min_profit)
         /\ lastOp'.status = "ok" <=> ~(lastOp'.amount \div 100 < lastOp'.min_profit)
         /\ w'.pools = w.pools
         /\ w'.loans = w.loans
         /\ w'.nextLoan = w.nextLoan
         /\ chain' = chain]_allvars

\* execute_arbitrage returned with amount 400 and min_profit 4 on two pools,
\* one of which has lent in the same transaction.
C33_Witness ==
    /\ lastOp.op = "execute_arbitrage" /\ lastOp.status = "ok"
    /\ lastOp.amount = 400 /\ lastOp.min_profit = 4
    /\ txStatus = "running"
    /\ w.loans # {}
    /\ \E p \in DOMAIN w.pools : w.pools[p].total_loans_issued > 0

\* Sum of a field of the loans of a set.
RECURSIVE SumOf(_, _)
SumOf(loans, field) ==
    IF loans = {} THEN 0
    ELSE LET l == CHOOSE x \in loans : TRUE
         IN l[field] + SumOf(loans \ {l}, field)

\* The loans issued by a pool that are outstanding, and those repay consumed.
OutstandingOf(st, pid) == {l \in Live(st) : l.pool_id = pid}
ConsumedOf(st, pid) == {s.loan : s \in {x \in st.settled : x.loan.pool_id = pid}}

\* The initial balance every pool is created with.
InitialBalance == CHOOSE b \in InitialBalances : TRUE

\* C34: in every committed state, the balance of a pool plus the amounts of
\* the outstanding loans it issued is at least its initial balance plus the
\* fees it has collected.
C34_FundsConserved ==
    \A pid \in DOMAIN chain.pools :
        chain.pools[pid].balance + SumOf(OutstandingOf(chain, pid), "amount")
            >= InitialBalance + chain.pools[pid].total_fees_collected

\* C35: in every committed state, the fees a pool has collected are the fees
\* of the loans it issued that repay consumed, and the loans it has issued
\* are those consumed and those outstanding.
C35_FeeAccounting ==
    \A pid \in DOMAIN chain.pools :
        /\ chain.pools[pid].total_fees_collected = SumOf(ConsumedOf(chain, pid), "fee")
        /\ chain.pools[pid].total_loans_issued
             = Cardinality(ConsumedOf(chain, pid) \cup OutstandingOf(chain, pid))

\* C36: repay by the borrower with at least amount + fee on the issuing pool
\* succeeds and consumes the loan also when the pool has been deactivated,
\* while a borrow on a deactivated pool aborts with EPoolNotActive.
C36_RepayIgnoresActive ==
    /\ (/\ lastOp.op = "repay"
        /\ ~lastOp.pre.active
        /\ lastOp.loan.pool_id = lastOp.pool
        /\ lastOp.sender = lastOp.loan.borrower
        /\ lastOp.payment >= Due(lastOp.loan))
         => /\ lastOp.status = "ok"
            /\ lastOp.loan \notin Live(w)
            /\ lastOp.loan.id \in w.consumed
            /\ ~LastPool.active
    /\ (lastOp.op = "borrow" /\ ~lastOp.pre.active)
         => (lastOp.status = "abort" /\ lastOp.code = EPoolNotActive /\ lastOp.loan = NoLoan)

\* A loan is repaid to the pool that issued it after the admin has
\* deactivated that pool.
C36_Witness ==
    /\ lastOp.op = "repay" /\ lastOp.status = "ok"
    /\ ~lastOp.pre.active
    /\ lastOp.loan.pool_id = lastOp.pool
    /\ lastOp.loan.id \in w.consumed
    /\ w.pools[lastOp.pool].total_fees_collected = lastOp.loan.fee

\* The error the assertions of borrow give in the order the claim states
\* them, 0 when none fails.
FirstViolated(pool, amount) ==
    IF ~pool.active THEN EPoolNotActive
    ELSE IF amount > pool.max_loan_amount THEN EMaxLoanExceeded
    ELSE IF amount > pool.balance THEN EInsufficientBalance
    ELSE 0

C38_FeeProductFits ==
    (/\ lastOp.op = "borrow"
     /\ lastOp.pre.active
     /\ lastOp.amount <= lastOp.pre.max_loan_amount
     /\ lastOp.amount <= lastOp.pre.balance
     /\ lastOp.pre.fee_rate <= MaxFeeRate)
    => lastOp.status # "arith"

====
